---- MODULE Spec2Model ----
(***************************************************************************)
(* SimpleVoting (contracts/SimpleVoting/src/lib.rs): a Soroban contract    *)
(* holding one yes/no poll in instance storage.  The host runs one call at *)
(* a time and commits the writes of a call only when the call returns; a   *)
(* call that panics (a failed require_auth) leaves the storage as it was.   *)
(***************************************************************************)
EXTENDS Integers, Sequences, FiniteSets, TLC

\* Number of distinct addresses that take part.
NumAddr == 4
Address == 1..NumAddr

\* Option<T>: None is the empty tuple, Some(x) the one-element tuple.
None == <<>>
Some(x) == <<x>>
unwrap_or(opt, default) == IF opt = None THEN default ELSE opt[1]

VARIABLES
    creator,      \* DataKey::Creator  : Option<Address>
    active,       \* DataKey::Active   : Option<bool>
    votesSi,      \* DataKey::VotesSi  : Option<u32>
    votesNo,      \* DataKey::VotesNo  : Option<u32>
    hasVoted,     \* the addresses a with a DataKey::HasVoted(a) entry
    last,         \* the last call: operation, argument, authorization, outcome
    pre,          \* the storage as it was when the last call started
    nVoteOk,      \* history: per address, the number of its votes that succeeded
    nInitOk,      \* history: the number of init calls that succeeded
    firstCreator, \* history: the argument of the first init that succeeded
    closedOk,     \* history: some close_voting has succeeded
    atClose,      \* history: the storage right after the first successful close_voting
    pc,           \* position of the scenario driver
    sc,           \* the scenario's identities <<A, B, C, D>>
    trace         \* the outcomes of the scenario's calls, in order

storageVars == <<creator, active, votesSi, votesNo, hasVoted>>
historyVars == <<nVoteOk, nInitOk, firstCreator, closedOk, atClose>>
scenarioVars == <<pc, sc, trace>>
vars == <<creator, active, votesSi, votesNo, hasVoted, last, pre,
          nVoteOk, nInitOk, firstCreator, closedOk, atClose, pc, sc, trace>>

Storage ==
    [creator |-> creator, active |-> active, votesSi |-> votesSi,
     votesNo |-> votesNo, hasVoted |-> hasVoted]

\* Outcome of a call that the host aborted: nothing is returned.
NoValue == <<>>

Call(op, who, auth, res, val) ==
    [op |-> op, who |-> who, auth |-> auth, res |-> res, val |-> val]

\* --------------------------------------------------------------- guards

\* init: has(&DataKey::Creator)
AlreadyInitializedCheck_onlyWhileOpen == creator # None /\ unwrap_or(active, FALSE)
AlreadyInitializedCheck_missing == FALSE
AlreadyInitializedCheck == creator # None

\* close_voting: stored_creator != creator
NotCreatorCheck_missing(stored_creator, c) == FALSE
NotCreatorCheck_inverted(stored_creator, c) == stored_creator = c
NotCreatorCheck(stored_creator, c) == stored_creator # c

\* close_voting: the value written to DataKey::Active
ClosedValue_toggle == ~unwrap_or(active, FALSE)
ClosedValue == FALSE

\* _vote: get(&DataKey::Active), None meaning Error::NotInitialized
ActiveRead_defaultTrue == IF active = None THEN Some(TRUE) ELSE active
ActiveRead_ignoresValue == IF active = None THEN None ELSE Some(TRUE)
ActiveRead == active

\* _vote: !active
VotingNotActiveCheck_missing(a) == FALSE
VotingNotActiveCheck(a) == ~a

\* _vote, has_voted: has(&DataKey::HasVoted(user))
HasVotedKey_neverFound(user) == FALSE
HasVotedKey(user) == user \in hasVoted

\* _vote: set(&has_voted_key, &true)
SetHasVoted_forgotten(voter) == hasVoted
SetHasVoted(voter) == hasVoted \cup {voter}

\* _vote: the counter the match arm reads and writes
CounterKey_alwaysSi(vote) == "Si"
CounterKey_swapped(vote) == IF vote = "Si" THEN "No" ELSE "Si"
CounterKey(vote) == vote

\* _vote: current_votes + 1.  The counters are u32; a counter never exceeds the
\* number of addresses that voted (at most NumAddr), so the addition stays far
\* below 2^32 and its overflow behaviour is not modelled.
NewVotes_plusTwo(current_votes) == current_votes + 2
NewVotes_unchanged(current_votes) == current_votes
NewVotes(current_votes) == current_votes + 1

\* get_results
ReadResults_swapped ==
    <<unwrap_or(votesNo, 0), unwrap_or(votesSi, 0), unwrap_or(active, FALSE)>>
ReadResults ==
    <<unwrap_or(votesSi, 0), unwrap_or(votesNo, 0), unwrap_or(active, FALSE)>>

\* ------------------------------------------------------------ operations

InitContract ==
    /\ creator = None
    /\ active = None
    /\ votesSi = None
    /\ votesNo = None
    /\ hasVoted = {}
    /\ last = Call("none", None, FALSE, "none", NoValue)
    /\ pre = [creator |-> None, active |-> None, votesSi |-> None,
              votesNo |-> None, hasVoted |-> {}]
    /\ nVoteOk = [a \in Address |-> 0]
    /\ nInitOk = 0
    /\ firstCreator = None
    /\ closedOk = FALSE
    /\ atClose = None

Init ==
    /\ InitContract
    /\ pc = 0
    /\ sc = <<>>
    /\ trace = <<>>

\* init as it would be with the write of DataKey::VotesNo left out.
init_skipsVotesNo(c, auth) ==
    /\ pre' = Storage
    /\ IF AlreadyInitializedCheck
       THEN /\ last' = Call("init", Some(c), auth, "AlreadyInitialized", NoValue)
            /\ UNCHANGED <<storageVars, historyVars>>
       ELSE IF ~auth
       THEN /\ last' = Call("init", Some(c), auth, "AuthFailed", NoValue)
            /\ UNCHANGED <<storageVars, historyVars>>
       ELSE /\ creator' = Some(c)
            /\ active' = Some(TRUE)
            /\ votesSi' = Some(0)
            /\ last' = Call("init", Some(c), auth, "Ok", NoValue)
            /\ nInitOk' = nInitOk + 1
            /\ firstCreator' = IF firstCreator = None THEN Some(c) ELSE firstCreator
            /\ UNCHANGED <<votesNo, hasVoted, nVoteOk, closedOk, atClose>>

init(c, auth) ==
    /\ pre' = Storage
    /\ IF AlreadyInitializedCheck
       THEN /\ last' = Call("init", Some(c), auth, "AlreadyInitialized", NoValue)
            /\ UNCHANGED <<storageVars, historyVars>>
       ELSE IF ~auth
       THEN /\ last' = Call("init", Some(c), auth, "AuthFailed", NoValue)
            /\ UNCHANGED <<storageVars, historyVars>>
       ELSE /\ creator' = Some(c)
            /\ active' = Some(TRUE)
            /\ votesSi' = Some(0)
            /\ votesNo' = Some(0)
            /\ last' = Call("init", Some(c), auth, "Ok", NoValue)
            /\ nInitOk' = nInitOk + 1
            /\ firstCreator' = IF firstCreator = None THEN Some(c) ELSE firstCreator
            /\ UNCHANGED <<hasVoted, nVoteOk, closedOk, atClose>>

\* close_voting as it would be with require_auth moved behind the checks on
\* the stored Creator.
close_voting_authAfterLookup(c, auth) ==
    /\ pre' = Storage
    /\ IF creator = None
       THEN /\ last' = Call("close_voting", Some(c), auth, "NotInitialized", NoValue)
            /\ UNCHANGED <<storageVars, historyVars>>
       ELSE IF NotCreatorCheck(creator[1], c)
       THEN /\ last' = Call("close_voting", Some(c), auth, "NotCreator", NoValue)
            /\ UNCHANGED <<storageVars, historyVars>>
       ELSE IF ~auth
       THEN /\ last' = Call("close_voting", Some(c), auth, "AuthFailed", NoValue)
            /\ UNCHANGED <<storageVars, historyVars>>
       ELSE /\ active' = Some(ClosedValue)
            /\ last' = Call("close_voting", Some(c), auth, "Ok", NoValue)
            /\ closedOk' = TRUE
            /\ atClose' = IF atClose = None
                          THEN Some([Storage EXCEPT !.active = active'])
                          ELSE atClose
            /\ UNCHANGED <<creator, votesSi, votesNo, hasVoted, nVoteOk, nInitOk,
                           firstCreator>>

close_voting(c, auth) ==
    /\ pre' = Storage
    /\ IF ~auth
       THEN /\ last' = Call("close_voting", Some(c), auth, "AuthFailed", NoValue)
            /\ UNCHANGED <<storageVars, historyVars>>
       ELSE IF creator = None
       THEN /\ last' = Call("close_voting", Some(c), auth, "NotInitialized", NoValue)
            /\ UNCHANGED <<storageVars, historyVars>>
       ELSE IF NotCreatorCheck(creator[1], c)
       THEN /\ last' = Call("close_voting", Some(c), auth, "NotCreator", NoValue)
            /\ UNCHANGED <<storageVars, historyVars>>
       ELSE /\ active' = Some(ClosedValue)
            /\ last' = Call("close_voting", Some(c), auth, "Ok", NoValue)
            /\ closedOk' = TRUE
            /\ atClose' = IF atClose = None
                          THEN Some([Storage EXCEPT !.active = active'])
                          ELSE atClose
            /\ UNCHANGED <<creator, votesSi, votesNo, hasVoted, nVoteOk, nInitOk,
                           firstCreator>>

OpName(vote) == IF vote = "Si" THEN "vote_si" ELSE "vote_no"

\* _vote as it would be with the HasVoted entry written ahead of the Active
\* check and kept when that check fails.
vote_marksBeforeChecks(voter, v, auth) ==
    LET key == CounterKey(v)
        current_votes == unwrap_or(IF key = "Si" THEN votesSi ELSE votesNo, 0)
        new_votes == NewVotes(current_votes)
        fail(res) == /\ last' = Call(OpName(v), Some(voter), auth, res, NoValue)
                     /\ UNCHANGED <<storageVars, historyVars>>
        failMarked(res) ==
                     /\ last' = Call(OpName(v), Some(voter), auth, res, NoValue)
                     /\ hasVoted' = SetHasVoted(voter)
                     /\ UNCHANGED <<creator, active, votesSi, votesNo, historyVars>>
    IN
    /\ pre' = Storage
    /\ IF ~auth THEN fail("AuthFailed")
       ELSE IF HasVotedKey(voter) THEN fail("AlreadyVoted")
       ELSE IF ActiveRead = None THEN failMarked("NotInitialized")
       ELSE IF VotingNotActiveCheck(ActiveRead[1]) THEN failMarked("VotingNotActive")
       ELSE /\ hasVoted' = SetHasVoted(voter)
            /\ votesSi' = IF key = "Si" THEN Some(new_votes) ELSE votesSi
            /\ votesNo' = IF key = "No" THEN Some(new_votes) ELSE votesNo
            /\ last' = Call(OpName(v), Some(voter), auth, "Ok", NoValue)
            /\ nVoteOk' = [nVoteOk EXCEPT ![voter] = @ + 1]
            /\ UNCHANGED <<creator, active, nInitOk, firstCreator, closedOk, atClose>>

\* _vote as it would be with require_auth moved behind the checks.
vote_authLast(voter, v, auth) ==
    LET key == CounterKey(v)
        current_votes == unwrap_or(IF key = "Si" THEN votesSi ELSE votesNo, 0)
        new_votes == NewVotes(current_votes)
        fail(res) == /\ last' = Call(OpName(v), Some(voter), auth, res, NoValue)
                     /\ UNCHANGED <<storageVars, historyVars>>
    IN
    /\ pre' = Storage
    /\ IF ActiveRead = None THEN fail("NotInitialized")
       ELSE IF VotingNotActiveCheck(ActiveRead[1]) THEN fail("VotingNotActive")
       ELSE IF HasVotedKey(voter) THEN fail("AlreadyVoted")
       ELSE IF ~auth THEN fail("AuthFailed")
       ELSE /\ hasVoted' = SetHasVoted(voter)
            /\ votesSi' = IF key = "Si" THEN Some(new_votes) ELSE votesSi
            /\ votesNo' = IF key = "No" THEN Some(new_votes) ELSE votesNo
            /\ last' = Call(OpName(v), Some(voter), auth, "Ok", NoValue)
            /\ nVoteOk' = [nVoteOk EXCEPT ![voter] = @ + 1]
            /\ UNCHANGED <<creator, active, nInitOk, firstCreator, closedOk, atClose>>

vote(voter, v, auth) ==
    LET key == CounterKey(v)
        current_votes == unwrap_or(IF key = "Si" THEN votesSi ELSE votesNo, 0)
        new_votes == NewVotes(current_votes)
        fail(res) == /\ last' = Call(OpName(v), Some(voter), auth, res, NoValue)
                     /\ UNCHANGED <<storageVars, historyVars>>
    IN
    /\ pre' = Storage
    /\ IF ~auth THEN fail("AuthFailed")
       ELSE IF ActiveRead = None THEN fail("NotInitialized")
       ELSE IF VotingNotActiveCheck(ActiveRead[1]) THEN fail("VotingNotActive")
       ELSE IF HasVotedKey(voter) THEN fail("AlreadyVoted")
       ELSE /\ hasVoted' = SetHasVoted(voter)
            /\ votesSi' = IF key = "Si" THEN Some(new_votes) ELSE votesSi
            /\ votesNo' = IF key = "No" THEN Some(new_votes) ELSE votesNo
            /\ last' = Call(OpName(v), Some(voter), auth, "Ok", NoValue)
            /\ nVoteOk' = [nVoteOk EXCEPT ![voter] = @ + 1]
            /\ UNCHANGED <<creator, active, nInitOk, firstCreator, closedOk, atClose>>

vote_si(voter, auth) == vote(voter, "Si", auth)

vote_no(voter, auth) == vote(voter, "No", auth)

get_results ==
    /\ pre' = Storage
    /\ last' = Call("get_results", None, FALSE, "Ok", ReadResults)
    /\ UNCHANGED <<storageVars, historyVars>>

has_voted(user) ==
    /\ pre' = Storage
    /\ last' = Call("has_voted", Some(user), FALSE, "Ok", <<HasVotedKey(user)>>)
    /\ UNCHANGED <<storageVars, historyVars>>

\* ------------------------------------------------- any sequence of calls

CallInit == \E c \in Address, auth \in BOOLEAN :
    init(c, auth) /\ UNCHANGED scenarioVars

CallVoteSi == \E voter \in Address, auth \in BOOLEAN :
    vote_si(voter, auth) /\ UNCHANGED scenarioVars

CallVoteNo == \E voter \in Address, auth \in BOOLEAN :
    vote_no(voter, auth) /\ UNCHANGED scenarioVars

CallCloseVoting == \E c \in Address, auth \in BOOLEAN :
    close_voting(c, auth) /\ UNCHANGED scenarioVars

CallGetResults == get_results /\ UNCHANGED scenarioVars

CallHasVoted == \E user \in Address : has_voted(user) /\ UNCHANGED scenarioVars

Next ==
    \/ CallInit
    \/ CallVoteSi
    \/ CallVoteNo
    \/ CallCloseVoting
    \/ CallGetResults
    \/ CallHasVoted

Spec == Init /\ [][Next]_vars

\* ------------------------------------------- the scenario of distinct A, B, C, D
\* init(C), vote_si(A), vote_si(A), vote_no(B), close_voting(D), close_voting(C),
\* get_results(), every call authorized by the identity it names.

Scenarios ==
    {t \in [1..4 -> Address] : \A i, j \in 1..4 : i # j => t[i] # t[j]}

A == sc[1]
B == sc[2]
C == sc[3]
D == sc[4]

ScenarioInit ==
    /\ InitContract
    /\ pc = 0
    /\ sc \in Scenarios
    /\ trace = <<>>

Advance ==
    /\ pc' = pc + 1
    /\ trace' = Append(trace, last'.res)
    /\ UNCHANGED sc

StepInitC == pc = 0 /\ init(C, TRUE) /\ Advance

StepVoteSiA == pc = 1 /\ vote_si(A, TRUE) /\ Advance

StepVoteSiAAgain == pc = 2 /\ vote_si(A, TRUE) /\ Advance

StepVoteNoB == pc = 3 /\ vote_no(B, TRUE) /\ Advance

StepCloseD == pc = 4 /\ close_voting(D, TRUE) /\ Advance

StepCloseC == pc = 5 /\ close_voting(C, TRUE) /\ Advance

StepGetResults ==
    /\ pc = 6
    /\ get_results
    /\ pc' = 7
    /\ UNCHANGED <<sc, trace>>

ScenarioNext ==
    \/ StepInitC
    \/ StepVoteSiA
    \/ StepVoteSiAAgain
    \/ StepVoteNoB
    \/ StepCloseD
    \/ StepCloseC
    \/ StepGetResults

ScenarioSpec == ScenarioInit /\ [][ScenarioNext]_vars

\* ------------------------------------------------------------- properties

VoteOps == {"vote_si", "vote_no"}

IsVoteBy(v) == last.op \in VoteOps /\ last.who = Some(v)

\* The last call was a vote of v made after an earlier vote of v had succeeded.
VoteAfterOwnSuccess(v) ==
    /\ IsVoteBy(v)
    /\ nVoteOk[v] >= 1
    /\ ~(last.res = "Ok" /\ nVoteOk[v] = 1)

\* The last call was an init made after an earlier init had succeeded.
InitAfterSuccess ==
    /\ last.op = "init"
    /\ nInitOk >= 1
    /\ ~(last.res = "Ok" /\ nInitOk = 1)

\* C1: for every identity v at most one of its vote_si/vote_no calls ever
\* succeeds; the HasVoted(v) entry is absent before that success, present
\* from it on and never removed, and has_voted(v) reports exactly that.
C1_OneVotePerIdentity ==
    \A v \in Address :
        /\ nVoteOk[v] <= 1
        /\ (v \in hasVoted) <=> (nVoteOk[v] = 1)
        /\ (v \in pre.hasVoted) => (v \in hasVoted)
        /\ (last.op = "has_voted" /\ last.who = Some(v))
               => last.val = <<nVoteOk[v] = 1>>

C1_Witness ==
    \E v \in Address :
        /\ nVoteOk[v] = 1
        /\ closedOk
        /\ last.op = "has_voted"
        /\ last.who = Some(v)
        /\ last.val = <<TRUE>>

\* C2: once a close_voting has succeeded, every authorized vote_si or vote_no,
\* by an identity that voted before or not, returns VotingNotActive and
\* leaves VotesSi and VotesNo as they were.
C2_VoteAfterCloseRejected ==
    (last.op \in VoteOps /\ last.auth /\ closedOk)
        => /\ last.res = "VotingNotActive"
           /\ votesSi = pre.votesSi
           /\ votesNo = pre.votesNo

C2_Witness ==
    /\ last.op = "vote_si"
    /\ last.auth
    /\ closedOk
    /\ last.who[1] \notin hasVoted
    /\ hasVoted # {}
    /\ last.res = "VotingNotActive"

\* C3: close_voting(c) succeeds only when c is the stored Creator; an
\* authorized close_voting by another caller returns NotCreator and leaves
\* the whole storage, Active included, unchanged.
C3_OnlyCreatorCloses ==
    last.op = "close_voting"
        => /\ last.res = "Ok" => pre.creator = last.who
           /\ (last.auth /\ pre.creator # None /\ pre.creator # last.who)
                  => (last.res = "NotCreator" /\ Storage = pre)

C3_Witness ==
    /\ last.op = "close_voting"
    /\ last.auth
    /\ last.res = "NotCreator"
    /\ active = Some(TRUE)
    /\ hasVoted # {}

\* C4: while no init has succeeded, every authorized vote_si, vote_no or
\* close_voting returns NotInitialized and the storage stays empty.
C4_NotInitialized ==
    (last.op \in VoteOps \cup {"close_voting"} /\ last.auth /\ nInitOk = 0)
        => /\ last.res = "NotInitialized"
           /\ Storage = pre
           /\ creator = None /\ active = None /\ votesSi = None /\ votesNo = None
           /\ hasVoted = {}

C4_Witness ==
    /\ last.op = "vote_no"
    /\ last.auth
    /\ nInitOk = 0
    /\ last.res = "NotInitialized"

\* C5: after an init has succeeded, every later init, whoever calls it and
\* whether the poll is open or closed, returns AlreadyInitialized and leaves
\* Creator, Active, VotesSi and VotesNo unchanged.
C5_InitOnlyOnce ==
    InitAfterSuccess
        => /\ last.res = "AlreadyInitialized"
           /\ creator = pre.creator
           /\ active = pre.active
           /\ votesSi = pre.votesSi
           /\ votesNo = pre.votesNo

C5_Witness ==
    /\ last.op = "init"
    /\ last.res = "AlreadyInitialized"
    /\ last.auth
    /\ last.who # creator
    /\ active = Some(FALSE)
    /\ votesSi = Some(1)
    /\ votesNo = Some(1)

\* C6 as stated: after v has voted successfully, every later vote_si(v) or
\* vote_no(v) returns AlreadyVoted.  Stated for authorized calls only, the
\* reading most favourable to the claim.
C6_Original ==
    \A v \in Address :
        (VoteAfterOwnSuccess(v) /\ last.auth) => last.res = "AlreadyVoted"

\* C6 amended: after v has voted successfully, a later vote_si(v) or
\* vote_no(v) never succeeds and changes neither counter nor any HasVoted
\* entry; when authorized it returns AlreadyVoted while the poll is open and
\* VotingNotActive once the poll is closed.
C6_RevoteRejected ==
    \A v \in Address :
        VoteAfterOwnSuccess(v)
            => /\ last.res # "Ok"
               /\ nVoteOk[v] = 1
               /\ Storage = pre
               /\ (last.auth /\ pre.active = Some(TRUE))
                      => last.res = "AlreadyVoted"
               /\ (last.auth /\ pre.active = Some(FALSE))
                      => last.res = "VotingNotActive"

C6_Witness ==
    \E v \in Address :
        /\ VoteAfterOwnSuccess(v)
        /\ last.op = "vote_no"
        /\ last.auth
        /\ active = Some(TRUE)
        /\ last.res = "AlreadyVoted"
        /\ votesSi = Some(1)
        /\ votesNo = Some(0)

\* C7: Active is true right after a successful init; it changes only from
\* absent to true by that init and from true to false by a successful
\* close_voting; once a close_voting has succeeded Active is false for good.
C7_ClosedIsTerminal ==
    /\ (last.op = "init" /\ last.res = "Ok") => active = Some(TRUE)
    /\ active # pre.active
           => \/ /\ last.op = "init" /\ last.res = "Ok"
                 /\ pre.active = None /\ active = Some(TRUE)
              \/ /\ last.op = "close_voting" /\ last.res = "Ok"
                 /\ pre.active = Some(TRUE) /\ active = Some(FALSE)
    /\ closedOk => active = Some(FALSE)
    /\ pre.active = Some(FALSE) => active = Some(FALSE)

C7_Witness ==
    /\ closedOk
    /\ pre.active = Some(FALSE)
    /\ last.op = "close_voting"
    /\ last.res = "Ok"
    /\ active = Some(FALSE)

\* C8: Creator is written exactly once, by the first successful init, with
\* that call's caller, and holds that identity in every later state.
C8_CreatorFixed ==
    /\ nInitOk <= 1
    /\ (nInitOk = 0) <=> (creator = None)
    /\ creator = firstCreator
    /\ (last.op = "init" /\ last.res = "Ok") => creator = last.who
    /\ pre.creator # None => creator = pre.creator

C8_Witness ==
    /\ nInitOk = 1
    /\ creator # None
    /\ last.op = "init"
    /\ last.auth
    /\ last.who # creator
    /\ closedOk

\* C9: VotesSi and VotesNo (read as 0 when absent) never decrease; a
\* successful vote_si adds exactly 1 to VotesSi and leaves VotesNo, a
\* successful vote_no adds exactly 1 to VotesNo and leaves VotesSi, and no
\* other call and no failed call changes either.
C9_CountersStepByOne ==
    LET si == unwrap_or(votesSi, 0)
        no == unwrap_or(votesNo, 0)
        si0 == unwrap_or(pre.votesSi, 0)
        no0 == unwrap_or(pre.votesNo, 0)
        voted == last.op \in VoteOps /\ last.res = "Ok"
    IN  /\ si >= si0
        /\ no >= no0
        /\ (last.op = "vote_si" /\ last.res = "Ok") => (si = si0 + 1 /\ no = no0)
        /\ (last.op = "vote_no" /\ last.res = "Ok") => (no = no0 + 1 /\ si = si0)
        /\ ~voted => (si = si0 /\ no = no0)
        /\ (~voted /\ ~(last.op = "init" /\ last.res = "Ok"))
               => (votesSi = pre.votesSi /\ votesNo = pre.votesNo)

C9_Witness ==
    /\ last.op = "vote_no"
    /\ last.res = "Ok"
    /\ pre.votesNo = Some(1)
    /\ votesNo = Some(2)
    /\ votesSi = Some(1)

\* C10: for distinct A, B, C, D the calls init(C), vote_si(A), vote_si(A),
\* vote_no(B), close_voting(D), close_voting(C) yield Ok, Ok, AlreadyVoted,
\* Ok, NotCreator, Ok in this order, and get_results() then returns
\* (1, 1, false).
ScenarioOutcomes == <<"Ok", "Ok", "AlreadyVoted", "Ok", "NotCreator", "Ok">>

C10_Scenario ==
    /\ Len(trace) <= Len(ScenarioOutcomes)
    /\ trace = SubSeq(ScenarioOutcomes, 1, Len(trace))
    /\ pc >= 6 => trace = ScenarioOutcomes
    /\ pc = 7 => (last.op = "get_results" /\ last.val = <<1, 1, FALSE>>)

C10_Witness ==
    /\ pc = 7
    /\ Len(trace) = 6
    /\ last.op = "get_results"
    /\ Cardinality({A, B, C, D}) = 4

MutatingOps == {"init", "vote_si", "vote_no", "close_voting"}

AllFourAbsent ==
    creator = None /\ active = None /\ votesSi = None /\ votesNo = None

AllFourPresent ==
    creator # None /\ active # None /\ votesSi # None /\ votesNo # None

\* C11: in any initialized state, open or closed, an authorized close_voting
\* by the stored Creator succeeds and leaves Active = false; on an already
\* closed poll it returns no error and leaves the storage exactly as one
\* close left it.
C11_CloseIdempotent ==
    (last.op = "close_voting" /\ last.auth /\ pre.creator = last.who)
        => /\ last.res = "Ok"
           /\ active = Some(FALSE)
           /\ Storage = [pre EXCEPT !.active = Some(FALSE)]
           /\ pre.active = Some(FALSE) => Storage = pre

C11_Witness ==
    /\ last.op = "close_voting"
    /\ last.auth
    /\ pre.creator = last.who
    /\ pre.active = Some(FALSE)
    /\ last.res = "Ok"
    /\ Storage = pre
    /\ hasVoted # {}

\* C12: a call of init, vote_si, vote_no or close_voting that does not
\* succeed, be it by an error code or by a failed authorization, leaves
\* Creator, Active, VotesSi, VotesNo and every HasVoted entry as they were.
C12_FailedCallChangesNothing ==
    (last.op \in MutatingOps /\ last.res # "Ok") => Storage = pre

C12_Witness ==
    /\ last.op = "vote_si"
    /\ last.auth
    /\ last.res = "VotingNotActive"
    /\ last.who[1] \notin hasVoted
    /\ hasVoted # {}
    /\ Storage = pre

\* C13: Creator, Active, VotesSi and VotesNo are all absent or all present;
\* right after a successful init(c) the storage is Creator = c, Active = true,
\* VotesSi = 0, VotesNo = 0 with no HasVoted entry, which get_results reads
\* as (0, 0, true).
C13_InitAtomic ==
    /\ AllFourAbsent \/ AllFourPresent
    /\ (last.op = "init" /\ last.res = "Ok")
           => /\ creator = last.who
              /\ active = Some(TRUE)
              /\ votesSi = Some(0)
              /\ votesNo = Some(0)
              /\ hasVoted = {}
              /\ ReadResults = <<0, 0, TRUE>>

C13_Witness ==
    /\ last.op = "init"
    /\ last.res = "Ok"
    /\ AllFourPresent
    /\ pre.creator = None
    /\ ReadResults = <<0, 0, TRUE>>

\* C14: get_results and has_voted always return, take no authorization and
\* change no state; get_results returns (VotesSi, VotesNo, Active) with absent
\* keys read as 0, 0 and false, hence (0, 0, false) before any init, and
\* has_voted(u) returns true exactly when the HasVoted(u) entry exists.
C14_ReadsArePure ==
    /\ last.op = "get_results"
           => /\ last.res = "Ok"
              /\ Storage = pre
              /\ last.val = <<unwrap_or(votesSi, 0), unwrap_or(votesNo, 0),
                              unwrap_or(active, FALSE)>>
              /\ nInitOk = 0 => last.val = <<0, 0, FALSE>>
    /\ last.op = "has_voted"
           => /\ last.res = "Ok"
              /\ Storage = pre
              /\ last.val = <<last.who[1] \in hasVoted>>

C14_Witness ==
    /\ last.op = "get_results"
    /\ last.val = <<2, 1, TRUE>>

\* The number of identities with a successful vote.
NumVoters == Cardinality({v \in Address : nVoteOk[v] >= 1})

\* C15: a vote_si or vote_no without valid authorization ends in the
\* authorization failure in every state (uninitialized, open, closed, voter
\* already voted), never in NotInitialized, VotingNotActive or AlreadyVoted,
\* and changes nothing; and no identity has more than one counted vote: the
\* two counters together hold one increment per identity that voted.
C15_AuthFirstInVote ==
    /\ (last.op \in VoteOps /\ ~last.auth)
           => (last.res = "AuthFailed" /\ Storage = pre)
    /\ \A v \in Address : nVoteOk[v] <= 1
    /\ unwrap_or(votesSi, 0) + unwrap_or(votesNo, 0) = NumVoters

C15_Witness ==
    \E v \in Address :
        /\ IsVoteBy(v)
        /\ ~last.auth
        /\ nVoteOk[v] = 1
        /\ active = Some(FALSE)
        /\ last.res = "AuthFailed"

\* C16 as stated: every init, vote_si, vote_no or close_voting without valid
\* authorization ends in the authorization failure, never in an error code.
C16_Original ==
    (last.op \in MutatingOps /\ ~last.auth) => last.res = "AuthFailed"

\* C16 amended: vote_si, vote_no and close_voting check the authorization
\* before any storage access, so without valid authorization they end in the
\* authorization failure; init reads Creator first, so an init without valid
\* authorization returns AlreadyInitialized on an initialized instance and
\* ends in the authorization failure only on an uninitialized one; in all
\* four no storage write precedes the authorization check.
C16_AuthBeforeWrites ==
    (last.op \in MutatingOps /\ ~last.auth)
        => /\ Storage = pre
           /\ last.op # "init" => last.res = "AuthFailed"
           /\ (last.op = "init" /\ pre.creator = None) => last.res = "AuthFailed"
           /\ (last.op = "init" /\ pre.creator # None)
                  => last.res = "AlreadyInitialized"

C16_Witness ==
    /\ last.op = "init"
    /\ ~last.auth
    /\ pre.creator # None
    /\ last.res = "AlreadyInitialized"

\* C17: VotesSi + VotesNo (read as 0 when absent) equals the number of
\* identities with a HasVoted entry; before any init there is no HasVoted
\* entry; the tally never exceeds the number of distinct voters.
C17_TallyMatchesVoters ==
    /\ unwrap_or(votesSi, 0) + unwrap_or(votesNo, 0) = Cardinality(hasVoted)
    /\ nInitOk = 0 => hasVoted = {}
    /\ creator = None => hasVoted = {}

C17_Witness ==
    /\ votesSi = Some(2)
    /\ votesNo = Some(1)
    /\ Cardinality(hasVoted) = 3
    /\ last.op \in VoteOps
    /\ last.res = "AlreadyVoted"

\* C18: from the first successful close_voting on, whatever calls follow,
\* the counters, Active = false and every HasVoted entry stay as that close
\* left them, so get_results and has_voted keep returning the same values.
C18_FrozenAfterClose ==
    atClose # None
        => /\ votesSi = atClose[1].votesSi
           /\ votesNo = atClose[1].votesNo
           /\ active = Some(FALSE)
           /\ atClose[1].active = Some(FALSE)
           /\ hasVoted = atClose[1].hasVoted
           /\ last.op = "get_results"
                  => last.val = <<unwrap_or(atClose[1].votesSi, 0),
                                  unwrap_or(atClose[1].votesNo, 0), FALSE>>
           /\ last.op = "has_voted"
                  => last.val = <<last.who[1] \in atClose[1].hasVoted>>

C18_Witness ==
    /\ atClose # None
    /\ last.op = "get_results"
    /\ last.val = <<1, 2, FALSE>>
    /\ pre = atClose[1]

\* C19: a successful close_voting changes nothing but Active; a successful
\* vote of v changes nothing but HasVoted(v) and the counter of its choice.
C19_SuccessFrame ==
    /\ (last.op = "close_voting" /\ last.res = "Ok")
           => /\ creator = pre.creator
              /\ votesSi = pre.votesSi
              /\ votesNo = pre.votesNo
              /\ hasVoted = pre.hasVoted
    /\ (last.op \in VoteOps /\ last.res = "Ok")
           => /\ creator = pre.creator
              /\ active = pre.active
              /\ last.op = "vote_si" => votesNo = pre.votesNo
              /\ last.op = "vote_no" => votesSi = pre.votesSi
              /\ hasVoted \ {last.who[1]} = pre.hasVoted \ {last.who[1]}

C19_Witness ==
    /\ last.op = "vote_no"
    /\ last.res = "Ok"
    /\ pre.votesSi = Some(1)
    /\ pre.hasVoted # {}
    /\ Cardinality(hasVoted) = 2

====
